---------------------------- MODULE Spec2Model ----------------------------
(***************************************************************************)
(* Model of src/app.py: packets moving over a Mesh, Torus or Hypercube     *)
(* under the congestion-aware, non-backtracking router adaptive_next_hop,  *)
(* driven by the fixed-length simulation loop.                             *)
(*                                                                         *)
(* Nodes are coordinate tuples, as in networkx: <<i, j>> for the grids,    *)
(* a tuple of n bits for the hypercube.  Neighbour sequences follow the    *)
(* order in which list(G.neighbors(v)) enumerates them.                    *)
(***************************************************************************)
EXTENDS Integers, Sequences, FiniteSets, TLC

(* ------------------------------ bounds --------------------------------- *)
\* largest "Number of Nodes per Dimension" explored (the slider allows 2..5)
MaxSize == 3
\* largest "Number of Packets" explored (the slider allows 1..8)
MaxPackets == 2
\* random.sample draws src and dst among the first MaxEndpoint nodes of list(G.nodes())
MaxEndpoint == 3

(* ------------------------- program constants --------------------------- *)
\* st.sidebar.slider("Number of Nodes per Dimension", 2, 5, 3): smallest and
\* largest size
MinSize == 2
MaxNodes == 5
\* st.sidebar.slider("Number of Packets", 1, 8, 3): smallest packet count
MinPackets == 1
\* any(p.blocked_steps>=3 ...): threshold for the deadlock/livelock colour
BlockedThreshold == 3

Topologies == {"Mesh", "Torus", "Hypercube"}

VARIABLES
    topology,      \* selected topology kind
    nodes,         \* nodes per dimension
    packet_list,   \* sequence of Packet records
    step,          \* number of iterations of the simulation loop executed
    node_colors,   \* colours drawn in the latest iteration, in G.nodes() order
    router_calls,  \* calls of adaptive_next_hop made in the latest iteration
    status,        \* per-packet status written by the summary
    pc             \* "loop" while the simulation loop runs, "done" after the summary

vars == <<topology, nodes, packet_list, step, node_colors, router_calls, status, pc>>

(* ------------------------------ helpers -------------------------------- *)
Range(s) == {s[k] : k \in 1..Len(s)}

Min2(a, b) == IF a < b THEN a ELSE b

RECURSIVE Pow2(_)
Pow2(n) == IF n = 0 THEN 1 ELSE 2 * Pow2(n - 1)

(* ------------------------ generate_topology ---------------------------- *)
\* list(G.nodes()) of nx.grid_2d_graph(n, n): (i, j) for i in rows for j in cols
GridNodes(n) == [k \in 1..(n * n) |-> <<(k - 1) \div n, (k - 1) % n>>]

\* list(G.nodes()) of nx.hypercube_graph(n): the n-bit tuples in lexicographic order
HypercubeNodes(n) ==
    [k \in 1..Pow2(n) |-> [p \in 1..n |-> ((k - 1) \div Pow2(n - p)) % 2]]

\* GridNeighbors with periodic applied to the rows only
GridNeighbors_NoColumnWrap(n, periodic, v) ==
    LET i == v[1]
        j == v[2]
        up    == IF i > 0 THEN << <<i - 1, j>> >> ELSE << >>
        down  == IF i < n - 1 THEN << <<i + 1, j>> >> ELSE << >>
        left  == IF j > 0 THEN << <<i, j - 1>> >> ELSE << >>
        right == IF j < n - 1 THEN << <<i, j + 1>> >> ELSE << >>
        wrapR == IF periodic /\ n > 2
                 THEN IF i = 0 THEN << <<n - 1, j>> >>
                      ELSE IF i = n - 1 THEN << <<0, j>> >> ELSE << >>
                 ELSE << >>
    IN  up \o down \o left \o right \o wrapR

\* list(G.neighbors(v)) in nx.grid_2d_graph(n, n, periodic): the row edges are
\* added first, then the column edges, then (only when n > 2) the wrap-around
\* row edges and the wrap-around column edges.
GridNeighbors(n, periodic, v) ==
    LET i == v[1]
        j == v[2]
        up    == IF i > 0 THEN << <<i - 1, j>> >> ELSE << >>
        down  == IF i < n - 1 THEN << <<i + 1, j>> >> ELSE << >>
        left  == IF j > 0 THEN << <<i, j - 1>> >> ELSE << >>
        right == IF j < n - 1 THEN << <<i, j + 1>> >> ELSE << >>
        wrapR == IF periodic /\ n > 2
                 THEN IF i = 0 THEN << <<n - 1, j>> >>
                      ELSE IF i = n - 1 THEN << <<0, j>> >> ELSE << >>
                 ELSE << >>
        wrapC == IF periodic /\ n > 2
                 THEN IF j = 0 THEN << <<i, n - 1>> >>
                      ELSE IF j = n - 1 THEN << <<i, 0>> >> ELSE << >>
                 ELSE << >>
    IN  up \o down \o left \o right \o wrapR \o wrapC

\* list(G.neighbors(v)) in nx.hypercube_graph(n): the nodes differing from v in
\* one bit; those obtained by clearing a bit come first, then those obtained by
\* setting one, each group from the first coordinate to the last.
HypercubeNeighbors(n, v) ==
    LET positions == [p \in 1..n |-> p]
        Flip(p)   == [v EXCEPT ![p] = 1 - v[p]]
        IsOne(p)  == v[p] = 1
        IsZero(p) == v[p] = 0
        ones      == SelectSeq(positions, IsOne)
        zeros     == SelectSeq(positions, IsZero)
    IN  [k \in 1..Len(ones) |-> Flip(ones[k])]
            \o [k \in 1..Len(zeros) |-> Flip(zeros[k])]

\* G = generate_topology(topology, nodes), represented by its two parameters
generate_topology(kind, n) == [kind |-> kind, n |-> n]

NodeList(G) ==
    IF G.kind = "Hypercube" THEN HypercubeNodes(G.n) ELSE GridNodes(G.n)

Neighbors(G, v) ==
    IF G.kind = "Mesh" THEN GridNeighbors(G.n, FALSE, v)
    ELSE IF G.kind = "Torus" THEN GridNeighbors(G.n, TRUE, v)
    ELSE HypercubeNeighbors(G.n, v)

(* ------------------------------ Packet --------------------------------- *)
Packet(src, dst) ==
    [src |-> src, dst |-> dst, current |-> src, path |-> <<src>>,
     completed |-> FALSE, blocked_steps |-> 0]

(* -------------------------- adaptive_next_hop -------------------------- *)
\* Congestion without the "and not p.completed" test
Congestion_CountCompleted(pl, n) ==
    Cardinality({q \in 1..Len(pl) : pl[q].current = n})

\* sum(1 for p in packet_list if p.current==n and not p.completed)
Congestion(pl, n) ==
    Cardinality({q \in 1..Len(pl) : pl[q].current = n /\ ~pl[q].completed})

\* min(neighbors, key=...): the first element with the smallest key
RECURSIVE PyMinFrom(_, _, _)
PyMinFrom(s, pl, best) ==
    IF s = << >> THEN best
    ELSE PyMinFrom(Tail(s), pl,
                   IF Congestion(pl, Head(s)) < Congestion(pl, best)
                   THEN Head(s) ELSE best)

\* min() keeping the last element with the smallest key instead of the first
RECURSIVE PyMinLastFrom(_, _, _)
PyMinLastFrom(s, pl, best) ==
    IF s = << >> THEN best
    ELSE PyMinLastFrom(Tail(s), pl,
                       IF Congestion(pl, Head(s)) <= Congestion(pl, best)
                       THEN Head(s) ELSE best)

PyMin_Last(s, pl) == PyMinLastFrom(Tail(s), pl, Head(s))

PyMin(s, pl) == PyMinFrom(Tail(s), pl, Head(s))

\* [n for n in G.neighbors(packet.current) if n not in packet.path]
\* Unvisited excluding only the node the packet came from
Unvisited_LastOnly(G, p) ==
    LET NotPrevious(n) == Len(p.path) < 2 \/ n # p.path[Len(p.path) - 1]
    IN  SelectSeq(Neighbors(G, p.current), NotPrevious)

Unvisited(G, p) ==
    LET NotInPath(n) == n \notin Range(p.path)
    IN  SelectSeq(Neighbors(G, p.current), NotInPath)

\* adaptive_next_hop falling back to the visited neighbours when none is unvisited
adaptive_next_hop_Backtrack(G, pl, i) ==
    LET neighbors == Unvisited(G, pl[i])
    IN  IF neighbors = << >>
        THEN [next_hop |-> PyMin(Neighbors(G, pl[i].current), pl),
              pl |-> [pl EXCEPT ![i].blocked_steps = @ + 1]]
        ELSE [next_hop |-> PyMin(neighbors, pl), pl |-> pl]

\* adaptive_next_hop letting a packet shown as deadlocked retry a visited neighbour
adaptive_next_hop_RecoverAfterThreshold(G, pl, i) ==
    LET neighbors == Unvisited(G, pl[i])
    IN  IF neighbors = << >>
        THEN [next_hop |-> IF pl[i].blocked_steps >= BlockedThreshold
                           THEN PyMin(Neighbors(G, pl[i].current), pl)
                           ELSE pl[i].current,
              pl |-> [pl EXCEPT ![i].blocked_steps = @ + 1]]
        ELSE [next_hop |-> PyMin(neighbors, pl), pl |-> pl]

\* adaptive_next_hop without the blocked_steps increment
adaptive_next_hop_NoCount(G, pl, i) ==
    LET neighbors == Unvisited(G, pl[i])
    IN  IF neighbors = << >>
        THEN [next_hop |-> pl[i].current, pl |-> pl]
        ELSE [next_hop |-> PyMin(neighbors, pl), pl |-> pl]

\* adaptive_next_hop enumerating G.neighbors(packet.src) instead of packet.current
adaptive_next_hop_FromSrc(G, pl, i) ==
    LET NotInPath(n) == n \notin Range(pl[i].path)
        neighbors == SelectSeq(Neighbors(G, pl[i].src), NotInPath)
    IN  IF neighbors = << >>
        THEN [next_hop |-> pl[i].current,
              pl |-> [pl EXCEPT ![i].blocked_steps = @ + 1]]
        ELSE [next_hop |-> PyMin(neighbors, pl), pl |-> pl]

\* adaptive_next_hop refusing the neighbours that carry another packet
adaptive_next_hop_AvoidOccupied(G, pl, i) ==
    LET Free(n) == n \notin Range(pl[i].path) /\ Congestion(pl, n) = 0
        neighbors == SelectSeq(Neighbors(G, pl[i].current), Free)
    IN  IF neighbors = << >>
        THEN [next_hop |-> pl[i].current,
              pl |-> [pl EXCEPT ![i].blocked_steps = @ + 1]]
        ELSE [next_hop |-> PyMin(neighbors, pl), pl |-> pl]

\* adaptive_next_hop stepping onto the destination when it is an unvisited neighbour
adaptive_next_hop_PreferDst(G, pl, i) ==
    LET neighbors == Unvisited(G, pl[i])
    IN  IF neighbors = << >>
        THEN [next_hop |-> pl[i].current,
              pl |-> [pl EXCEPT ![i].blocked_steps = @ + 1]]
        ELSE [next_hop |-> IF pl[i].dst \in Range(neighbors) THEN pl[i].dst
                           ELSE PyMin(neighbors, pl),
              pl |-> pl]

\* adaptive_next_hop(packet_list[i]): the returned node and the packet list
\* after the call (the call increments blocked_steps of a packet with no
\* unvisited neighbour)
adaptive_next_hop(G, pl, i) ==
    LET neighbors == Unvisited(G, pl[i])
    IN  IF neighbors = << >>
        THEN [next_hop |-> pl[i].current,
              pl |-> [pl EXCEPT ![i].blocked_steps = @ + 1]]
        ELSE [next_hop |-> PyMin(neighbors, pl), pl |-> pl]

(* --------------------------- simulation loop --------------------------- *)
\* NodeColor without the "not p.completed" filter
NodeColor_CountCompleted(pl, node) ==
    LET packet_here == {q \in 1..Len(pl) : pl[q].current = node}
    IN  IF packet_here = {} THEN "lightblue"
        ELSE IF \E q \in packet_here : pl[q].blocked_steps >= BlockedThreshold
             THEN "orange"
             ELSE "red"

\* the colour of one node in the snapshot drawn at the top of an iteration
NodeColor(pl, node) ==
    LET packet_here == {q \in 1..Len(pl) : pl[q].current = node /\ ~pl[q].completed}
    IN  IF packet_here = {} THEN "lightblue"
        ELSE IF \E q \in packet_here : pl[q].blocked_steps >= BlockedThreshold
             THEN "orange"
             ELSE "red"

NodeColors(G, pl) == [k \in 1..Len(NodeList(G)) |-> NodeColor(pl, NodeList(G)[k])]

\* MovePacket with p.path.append hoisted above the two "continue" tests
MovePacket_AppendAlways(G, st, i) ==
    LET p == st.pl[i]
    IN  IF p.completed THEN [st EXCEPT !.pl[i].path = Append(@, p.current)]
        ELSE IF p.current = p.dst
        THEN [st EXCEPT !.pl[i].completed = TRUE]
        ELSE LET r == adaptive_next_hop(G, st.pl, i)
             IN  [pl |-> [r.pl EXCEPT ![i].current = r.next_hop,
                                      ![i].path = Append(@, r.next_hop)],
                  calls |-> Append(st.calls,
                                   [packet |-> i, view |-> st.pl,
                                    next_hop |-> r.next_hop])]

\* MovePacket appending to the path only when the packet moved
MovePacket_NoAppendOnBlock(G, st, i) ==
    LET p == st.pl[i]
    IN  IF p.completed THEN st
        ELSE IF p.current = p.dst
        THEN [st EXCEPT !.pl[i].completed = TRUE]
        ELSE LET r == adaptive_next_hop(G, st.pl, i)
             IN  [pl |-> [r.pl EXCEPT ![i].current = r.next_hop,
                                      ![i].path = IF r.next_hop = p.current THEN @
                                                  ELSE Append(@, r.next_hop)],
                  calls |-> Append(st.calls,
                                   [packet |-> i, view |-> st.pl,
                                    next_hop |-> r.next_hop])]

\* MovePacket without the "continue" after p.completed = True
MovePacket_NoContinue(G, st, i) ==
    LET p    == st.pl[i]
        done == p.current = p.dst
        pl0  == IF done THEN [st.pl EXCEPT ![i].completed = TRUE] ELSE st.pl
    IN  IF p.completed THEN st
        ELSE LET r == adaptive_next_hop(G, pl0, i)
             IN  [pl |-> [r.pl EXCEPT ![i].current = r.next_hop,
                                      ![i].path = Append(@, r.next_hop)],
                  calls |-> Append(st.calls,
                                   [packet |-> i, view |-> pl0,
                                    next_hop |-> r.next_hop])]

\* MovePacket testing for arrival right after the move
MovePacket_MarkOnArrival(G, st, i) ==
    LET p == st.pl[i]
    IN  IF p.completed THEN st
        ELSE IF p.current = p.dst
        THEN [st EXCEPT !.pl[i].completed = TRUE]
        ELSE LET r == adaptive_next_hop(G, st.pl, i)
             IN  [pl |-> [r.pl EXCEPT ![i].current = r.next_hop,
                                      ![i].path = Append(@, r.next_hop),
                                      ![i].completed = (r.next_hop = p.dst)],
                  calls |-> Append(st.calls,
                                   [packet |-> i, view |-> st.pl,
                                    next_hop |-> r.next_hop])]

\* the body of "for p in packet_list" for the packet at index i; st carries the
\* packet list and the router calls made so far in this iteration
MovePacket(G, st, i) ==
    LET p == st.pl[i]
    IN  IF p.completed THEN st
        ELSE IF p.current = p.dst
        THEN [st EXCEPT !.pl[i].completed = TRUE]
        ELSE LET r == adaptive_next_hop(G, st.pl, i)
             IN  [pl |-> [r.pl EXCEPT ![i].current = r.next_hop,
                                      ![i].path = Append(@, r.next_hop)],
                  calls |-> Append(st.calls,
                                   [packet |-> i, view |-> st.pl,
                                    next_hop |-> r.next_hop])]

RECURSIVE MovePacketsFrom(_, _, _)
MovePacketsFrom(G, st, i) ==
    IF i > Len(st.pl) THEN st
    ELSE MovePacketsFrom(G, MovePacket(G, st, i), i + 1)

\* MovePackets routing every packet on the positions found at the top of the
\* iteration instead of the live list
RECURSIVE CallsOnSnapshot(_, _, _)
CallsOnSnapshot(G, pl, i) ==
    IF i > Len(pl) THEN << >>
    ELSE MovePacket(G, [pl |-> pl, calls |-> << >>], i).calls
             \o CallsOnSnapshot(G, pl, i + 1)

MovePackets_OnSnapshot(G, pl) ==
    [pl |-> [i \in 1..Len(pl) |->
                 MovePacket(G, [pl |-> pl, calls |-> << >>], i).pl[i]],
     calls |-> CallsOnSnapshot(G, pl, 1)]

\* "for p in packet_list: ..." over the whole list, in list order
MovePackets(G, pl) == MovePacketsFrom(G, [pl |-> pl, calls |-> << >>], 1)

\* max_steps as the side length instead of twice the square of it
max_steps_SideLength(n) == n

max_steps(n) == n * n * 2

\* the loop leaving as soon as every packet is completed
LoopContinues_EarlyExit(n, s, pl) ==
    s < max_steps(n) /\ \E i \in 1..Len(pl) : ~pl[i].completed

\* "for step in range(max_steps)": another iteration follows
LoopContinues(n, s, pl) == s < max_steps(n)

(* --------------------------- initial states ---------------------------- *)
Sizes == MinSize..MaxSize

\* the (src, dst) pairs random.sample may return, within the bound
EndpointPairs(G) ==
    LET m == Min2(MaxEndpoint, Len(NodeList(G)))
    IN  {<<NodeList(G)[a], NodeList(G)[b]>> : a, b \in 1..m} \
            {<<NodeList(G)[a], NodeList(G)[a]>> : a \in 1..m}

PacketLists(G) ==
    UNION {[1..k -> {Packet(e[1], e[2]) : e \in EndpointPairs(G)}] :
               k \in MinPackets..MaxPackets}

InitialConfigs ==
    UNION {{[topology |-> t, nodes |-> n, packet_list |-> pl] :
                pl \in PacketLists(generate_topology(t, n))} :
               t \in Topologies, n \in Sizes}

Init ==
    \E c \in InitialConfigs :
        /\ topology = c.topology
        /\ nodes = c.nodes
        /\ packet_list = c.packet_list
        /\ step = 0
        /\ node_colors = << >>
        /\ router_calls = << >>
        /\ status = << >>
        /\ pc = "loop"

(* ------------------------------ actions -------------------------------- *)
\* Step colouring the nodes after the packets have moved
Step_ColorAfterMove ==
    /\ pc = "loop"
    /\ LoopContinues(nodes, step, packet_list)
    /\ LET G  == generate_topology(topology, nodes)
           st == MovePackets(G, packet_list)
       IN  /\ node_colors' = NodeColors(G, st.pl)
           /\ packet_list' = st.pl
           /\ router_calls' = st.calls
    /\ step' = step + 1
    /\ UNCHANGED <<topology, nodes, status, pc>>

\* one iteration of the simulation loop: colour the nodes, then move the packets
Step ==
    /\ pc = "loop"
    /\ LoopContinues(nodes, step, packet_list)
    /\ LET G  == generate_topology(topology, nodes)
           st == MovePackets(G, packet_list)
       IN  /\ node_colors' = NodeColors(G, packet_list)
           /\ packet_list' = st.pl
           /\ router_calls' = st.calls
    /\ step' = step + 1
    /\ UNCHANGED <<topology, nodes, status, pc>>

PacketStatus(p) == IF p.completed THEN "Completed" ELSE "Blocked"

\* the summary written once the loop has ended
Summary ==
    /\ pc = "loop"
    /\ ~LoopContinues(nodes, step, packet_list)
    /\ status' = [i \in 1..Len(packet_list) |-> PacketStatus(packet_list[i])]
    /\ pc' = "done"
    /\ UNCHANGED <<topology, nodes, packet_list, step, node_colors, router_calls>>

Next == Step \/ Summary

Spec == Init /\ [][Next]_vars

(* ------------------------------- claims ------------------------------- *)
G_now == generate_topology(topology, nodes)

Packets == 1..Len(packet_list)

\* the router was called for packet i in the iteration an action executes
RoutedNext(i) == \E k \in 1..Len(router_calls') : router_calls'[k].packet = i

\* an iteration of the simulation loop is being executed
IsStep == step' = step + 1

(* C1: once a packet's completed flag is true, every later iteration leaves  *)
(* its current node, its path and its completed flag unchanged and does not  *)
(* call the router for it.                                                   *)
C1_CompletedIsTerminal ==
    [][\A i \in Packets :
           packet_list[i].completed =>
               /\ packet_list'[i].current = packet_list[i].current
               /\ packet_list'[i].path = packet_list[i].path
               /\ packet_list'[i].completed
               /\ (IsStep => ~RoutedNext(i))]_vars

\* a packet completed for at least one whole iteration while another still moves
C1_Witness ==
    \E i, j \in Packets :
        /\ packet_list[i].completed
        /\ step > Len(packet_list[i].path)
        /\ \E k \in 1..Len(router_calls) : router_calls[k].packet = j

(* C2 as stated: after every iteration every packet's path has length        *)
(* step + 1, completed packets included.                                     *)
C2_PathLengthIsStepsPlusOne ==
    \A i \in Packets : Len(packet_list[i].path) = step + 1

(* C2 amended: the path has length step + 1 for every packet that is not on  *)
(* its destination, at most step + 1 for one that is, at most step for a     *)
(* completed one; an iteration appends exactly one node to the path of each  *)
(* packet it routes and leaves the other paths unchanged.                    *)
C2_PathLengthCountsRoutedSteps ==
    /\ [](\A i \in Packets :
              LET p == packet_list[i]
              IN  /\ p.current # p.dst => Len(p.path) = step + 1
                  /\ p.current = p.dst => Len(p.path) <= step + 1
                  /\ p.completed => Len(p.path) <= step)
    /\ [][IsStep =>
              \A i \in Packets :
                  IF RoutedNext(i)
                  THEN Len(packet_list'[i].path) = Len(packet_list[i].path) + 1
                  ELSE packet_list'[i].path = packet_list[i].path]_vars

\* a completed packet whose path stopped growing next to a packet still routed
C2_Witness ==
    \E i, j \in Packets :
        /\ packet_list[i].completed
        /\ Len(packet_list[i].path) < step
        /\ ~packet_list[j].completed
        /\ packet_list[j].blocked_steps >= 1
        /\ Len(packet_list[j].path) = step + 1

(* C3 as stated: after every iteration every packet is Active (not on its    *)
(* destination, not completed) or Completed (on its destination, completed). *)
C3_ActiveOrCompleted ==
    \A i \in Packets :
        LET p == packet_list[i]
        IN  \/ p.current # p.dst /\ ~p.completed
            \/ p.current = p.dst /\ p.completed

(* C3 amended: a completed packet is on its destination, and a packet that   *)
(* is on its destination without being completed arrived there in the        *)
(* iteration just executed (it is marked completed by the next one).         *)
C3_ActiveArrivedOrCompleted ==
    \A i \in Packets :
        LET p == packet_list[i]
        IN  /\ p.completed => p.current = p.dst
            /\ (p.current = p.dst /\ ~p.completed) =>
                   /\ step >= 1
                   /\ Len(p.path) = step + 1
                   /\ \E k \in 1..Len(router_calls) :
                          /\ router_calls[k].packet = i
                          /\ router_calls[k].next_hop = p.dst

\* a packet standing on its destination, not yet marked, beside a completed one
C3_Witness ==
    \E i, j \in Packets :
        /\ packet_list[i].current = packet_list[i].dst
        /\ ~packet_list[i].completed
        /\ packet_list[j].completed

(* C4 as stated: the hop returned for each packet is the one the router      *)
(* computes from the packet list as it was at the top of the iteration, and  *)
(* the congestion of every neighbour the router saw is its congestion there. *)
C4_CongestionFromStepStart ==
    [][\A k \in 1..Len(router_calls') :
           LET c == router_calls'[k]
           IN  IsStep =>
                   /\ c.next_hop =
                          adaptive_next_hop(G_now, packet_list, c.packet).next_hop
                   /\ \A n \in Range(Neighbors(G_now, packet_list[c.packet].current)) :
                          Congestion(c.view, n) = Congestion(packet_list, n)]_vars

\* the packet list the loop has built when it reaches packet i: the packets
\* before i already updated by this iteration, the others not yet
LiveView(i) ==
    [j \in Packets |-> IF j < i THEN packet_list'[j] ELSE packet_list[j]]

(* C4 amended: the router scores congestion on the live packet list: packets *)
(* earlier in list order are seen where this iteration has already put them  *)
(* (and completed if it marked them), later ones where the previous          *)
(* iteration left them; the returned hop is the router's choice on that list.*)
C4_CongestionFromLivePositions ==
    [][\A k \in 1..Len(router_calls') :
           LET c == router_calls'[k]
           IN  IsStep =>
                   /\ c.view = LiveView(c.packet)
                   /\ c.next_hop =
                          adaptive_next_hop(G_now, LiveView(c.packet), c.packet).next_hop]_vars

\* a router call made after an earlier packet moved, in this same iteration,
\* onto a neighbour of the routed packet's node
C4_Witness ==
    \E k \in 1..Len(router_calls) :
        LET c == router_calls[k]
        IN  \E j \in 1..(c.packet - 1) :
                LET q == c.view[j]
                IN  /\ Len(q.path) = step + 1
                    /\ q.path[Len(q.path) - 1] # q.current
                    /\ q.current \in Range(Neighbors(G_now, c.view[c.packet].current))
                    /\ c.next_hop # q.current

\* the packet lists at the top of every iteration of the run that starts in
\* configuration c, followed by the list the loop ends with
RECURSIVE RunFrom(_, _, _)
RunFrom(c, s, pl) ==
    IF LoopContinues(c.nodes, s, pl)
    THEN <<pl>> \o RunFrom(c, s + 1,
                           MovePackets(generate_topology(c.topology, c.nodes), pl).pl)
    ELSE <<pl>>

(* C5 as stated: a packet whose blocked_steps has reached 3 stays Active,    *)
(* and some run of the program has such a packet change its current node in  *)
(* a later iteration.                                                        *)
C5_BlockedPacketCanRecover ==
    /\ \A i \in Packets :
           packet_list[i].blocked_steps >= BlockedThreshold =>
               ~packet_list[i].completed
    /\ \E c \in InitialConfigs :
           LET run == RunFrom(c, 0, c.packet_list)
           IN  \E s \in 1..(Len(run) - 1) :
                   \E i \in 1..Len(c.packet_list) :
                       /\ run[s][i].blocked_steps >= BlockedThreshold
                       /\ run[s + 1][i].current # run[s][i].current

(* C5 amended: a packet whose blocked_steps has reached 3 stays Active and   *)
(* is routed by every later iteration, but it never recovers: each of them   *)
(* returns its current node again, so current is unchanged and blocked_steps *)
(* grows by one, wherever the other packets are.                             *)
C5_BlockedPacketNeverRecovers ==
    /\ [](\A i \in Packets :
              packet_list[i].blocked_steps >= BlockedThreshold =>
                  /\ ~packet_list[i].completed
                  /\ packet_list[i].current # packet_list[i].dst)
    /\ [][IsStep =>
              \A i \in Packets :
                  packet_list[i].blocked_steps >= BlockedThreshold =>
                      /\ RoutedNext(i)
                      /\ packet_list'[i].current = packet_list[i].current
                      /\ packet_list'[i].blocked_steps =
                             packet_list[i].blocked_steps + 1]_vars

\* a packet blocked past the threshold although another packet, which stood on
\* a neighbour of its node while it was at its dead end, has moved away
C5_Witness ==
    \E i, j \in Packets :
        LET p == packet_list[i]
            q == packet_list[j]
        IN  /\ i # j
            /\ p.blocked_steps > BlockedThreshold
            /\ \E t \in 1..(Len(q.path) - 1) :
                   /\ t >= Len(p.path) - p.blocked_steps
                   /\ q.path[t] \in Range(Neighbors(G_now, p.current))
                   /\ q.path[t + 1] # q.path[t]

\* packet p is not completed, not on its destination, and every neighbour of
\* its current node is already in its path
Stuck(p) ==
    /\ ~p.completed
    /\ p.current # p.dst
    /\ Range(Neighbors(G_now, p.current)) \subseteq Range(p.path)

(* C6: a non-completed packet standing, off its destination, on a node whose *)
(* neighbours are all in its path stays in that situation on the same node   *)
(* through every later iteration, so it never moves and never completes.     *)
C6_StuckForever ==
    [][\A i \in Packets :
           Stuck(packet_list[i]) =>
               /\ Stuck(packet_list'[i])
               /\ packet_list'[i].current = packet_list[i].current]_vars

\* a packet stuck for several iterations whose destination is adjacent to a
\* node it has visited
C6_Witness ==
    \E i \in Packets :
        LET p == packet_list[i]
        IN  /\ Stuck(p)
            /\ p.blocked_steps >= 2
            /\ \E v \in Range(p.path) : p.dst \in Range(Neighbors(G_now, v))

(* C7: an iteration leaves a packet's blocked_steps unchanged or adds 1; it  *)
(* adds 1 exactly when it routed the packet and the router returned the      *)
(* packet's current node, which happens exactly when every neighbour of that *)
(* node is in the packet's path, and then current is unchanged.              *)
C7_BlockedStepsCountsDeadEnds ==
    [][\A i \in Packets :
           LET p == packet_list[i]
               d == packet_list'[i].blocked_steps - p.blocked_steps
               returnedCurrent ==
                   \E k \in 1..Len(router_calls') :
                       /\ router_calls'[k].packet = i
                       /\ router_calls'[k].next_hop = p.current
               deadEnd ==
                   Range(Neighbors(G_now, p.current)) \subseteq Range(p.path)
           IN  /\ d \in {0, 1}
               /\ IsStep => /\ d = 1 <=> returnedCurrent
                            /\ returnedCurrent <=> (RoutedNext(i) /\ deadEnd)
                            /\ d = 1 => packet_list'[i].current = p.current
               /\ ~IsStep => d = 0]_vars

\* one iteration has just blocked one packet and moved another
C7_Witness ==
    \E a, b \in 1..Len(router_calls) :
        LET ca == router_calls[a]
            cb == router_calls[b]
        IN  /\ ca.next_hop = ca.view[ca.packet].current
            /\ packet_list[ca.packet].blocked_steps >= 1
            /\ cb.next_hop # cb.view[cb.packet].current
            /\ packet_list[cb.packet].blocked_steps = 0

(* C8: an iteration leaves a packet on its node or moves it to a topology    *)
(* neighbour of that node.                                                   *)
C8_MovesAlongEdges ==
    [][\A i \in Packets :
           \/ packet_list'[i].current = packet_list[i].current
           \/ packet_list'[i].current \in
                  Range(Neighbors(G_now, packet_list[i].current))]_vars

\* a packet that has made two hops in a row
C8_Witness ==
    \E i \in Packets :
        LET p == packet_list[i]
        IN  /\ Len(p.path) >= 3
            /\ p.path[Len(p.path)] # p.path[Len(p.path) - 1]
            /\ p.path[Len(p.path) - 1] # p.path[Len(p.path) - 2]

\* for a router call c: the packet as the router saw it, its neighbours in
\* enumeration order, and the number of other not-yet-completed packets on n
CallPacket(c) == c.view[c.packet]

CallCandidates(c) ==
    {x \in 1..Len(Neighbors(G_now, CallPacket(c).current)) :
         Neighbors(G_now, CallPacket(c).current)[x] \notin Range(CallPacket(c).path)}

OthersOn(c, n) ==
    Cardinality({j \in 1..Len(c.view) :
                     j # c.packet /\ c.view[j].current = n /\ ~c.view[j].completed})

(* C9: when the routed packet has a neighbour outside its path, the router   *)
(* returns one of those neighbours, none of them carries fewer other         *)
(* not-yet-completed packets, and every one enumerated before it carries     *)
(* strictly more; the returned node is not in the packet's path.             *)
C9_FirstLeastCongestedUnvisited ==
    \A k \in 1..Len(router_calls) :
        LET c    == router_calls[k]
            nbrs == Neighbors(G_now, CallPacket(c).current)
        IN  CallCandidates(c) # {} =>
                /\ c.next_hop \notin Range(CallPacket(c).path)
                /\ \E x \in CallCandidates(c) :
                       /\ nbrs[x] = c.next_hop
                       /\ \A y \in CallCandidates(c) :
                              /\ OthersOn(c, nbrs[x]) <= OthersOn(c, nbrs[y])
                              /\ y < x => OthersOn(c, nbrs[y]) > OthersOn(c, nbrs[x])

\* a call in which the first unvisited neighbour was occupied and passed over
\* for a free one, and a call in which two free unvisited neighbours tied
C9_Witness ==
    /\ \E k \in 1..Len(router_calls) :
           LET c    == router_calls[k]
               nbrs == Neighbors(G_now, CallPacket(c).current)
           IN  \E x, y \in CallCandidates(c) :
                   /\ y < x
                   /\ nbrs[x] = c.next_hop
                   /\ OthersOn(c, nbrs[y]) > OthersOn(c, nbrs[x])
    /\ \E k \in 1..Len(router_calls) :
           LET c    == router_calls[k]
               nbrs == Neighbors(G_now, CallPacket(c).current)
           IN  \E x, y \in CallCandidates(c) :
                   /\ x < y
                   /\ nbrs[x] = c.next_hop
                   /\ OthersOn(c, nbrs[y]) = OthersOn(c, nbrs[x])

AllCompleted == \A i \in Packets : packet_list[i].completed

(* C10: for every topology kind the loop goes on exactly as long as fewer    *)
(* than 2 * nodes * nodes iterations have run, also when every packet is     *)
(* completed, so the summary is reached after exactly that many iterations   *)
(* and ends the run; an iteration that finds every packet completed changes  *)
(* no packet.                                                                *)
C10_RunsExactlyMaxSteps ==
    /\ [](pc = "done" => step = 2 * nodes * nodes)
    /\ [](pc = "loop" =>
              (LoopContinues(nodes, step, packet_list) <=> step < 2 * nodes * nodes))
    /\ [][(pc = "loop" /\ step < 2 * nodes * nodes) => IsStep]_vars
    /\ [][pc = "loop"]_vars
    /\ [][AllCompleted => packet_list' = packet_list]_vars

\* a finished Hypercube run, longer than twice its node count, whose packets
\* were all completed before the last iterations
C10_Witness ==
    /\ pc = "done"
    /\ topology = "Hypercube"
    /\ step = 2 * nodes * nodes
    /\ step # 2 * Len(NodeList(G_now))
    /\ \A i \in Packets :
           packet_list[i].completed /\ Len(packet_list[i].path) + 2 < step

(* C11 as stated: the colours drawn by an iteration classify the nodes by    *)
(* the packet list that results from that iteration's moves.                 *)
C11_SnapshotAfterMoves ==
    [][IsStep => node_colors' = NodeColors(G_now, packet_list')]_vars

(* C11 amended: the colours drawn by an iteration classify the nodes by the  *)
(* packet list found at the top of the iteration, before its moves: the      *)
(* initial list for the first iteration, the result of the previous          *)
(* iteration for the others.                                                 *)
C11_SnapshotBeforeMoves ==
    [][IsStep => node_colors' = NodeColors(G_now, packet_list)]_vars

\* after an iteration that moved a packet, the colours drawn by it show the
\* packet's old node occupied and differ from the colouring of the new list
C11_Witness ==
    /\ step >= 1
    /\ node_colors # NodeColors(G_now, packet_list)
    /\ \E i \in Packets, k \in 1..Len(node_colors) :
           LET p == packet_list[i]
           IN  /\ Len(p.path) = step + 1
               /\ p.path[step] # p.current
               /\ NodeList(G_now)[k] = p.path[step]
               /\ node_colors[k] = "red"
               /\ NodeColor(packet_list, p.path[step]) = "lightblue"

\* the neighbours of node v are pairwise distinct and there are d of them
HasDegree(v, d) ==
    /\ Len(Neighbors(G_now, v)) = d
    /\ Cardinality(Range(Neighbors(G_now, v))) = d

(* C12 as stated: in a Torus of any size n >= 2 every node has exactly 4     *)
(* distinct neighbours.                                                      *)
C12_TorusDegreeFour ==
    topology = "Torus" => \A v \in Range(NodeList(G_now)) : HasDegree(v, 4)

(* C12 amended: in a Torus of size n >= 3 every node has exactly 4 distinct  *)
(* neighbours; for n = 2 the graph is the 2 x 2 mesh and every node has      *)
(* exactly 2; adjacency is symmetric and joins nodes of the graph. The graph *)
(* is generated once, before the first iteration: all its nodes are examined *)
(* then, and the nodes the packets stand on in every later state.            *)
C12_TorusDegreeFourFromThree ==
    topology = "Torus" =>
        /\ step = 0 =>
               \A v \in Range(NodeList(G_now)) :
                   /\ HasDegree(v, IF nodes >= 3 THEN 4 ELSE 2)
                   /\ v \notin Range(Neighbors(G_now, v))
                   /\ \A w \in Range(Neighbors(G_now, v)) :
                          /\ w \in Range(NodeList(G_now))
                          /\ v \in Range(Neighbors(G_now, w))
        /\ \A i \in Packets :
               HasDegree(packet_list[i].current, IF nodes >= 3 THEN 4 ELSE 2)

\* a packet in a Torus of size 3 that has hopped over a wrap-around edge,
\* from a node that has 4 distinct neighbours
C12_Witness ==
    /\ topology = "Torus"
    /\ nodes = 3
    /\ \E i \in Packets :
           LET p == packet_list[i]
           IN  \E a \in 1..(Len(p.path) - 1) :
                   /\ HasDegree(p.path[a], 4)
                   /\ \/ /\ p.path[a][1] = p.path[a + 1][1]
                         /\ p.path[a][2] - p.path[a + 1][2] \in {2, -2}
                      \/ /\ p.path[a][2] = p.path[a + 1][2]
                         /\ p.path[a][1] - p.path[a + 1][1] \in {2, -2}

\* a Mesh or Hypercube of size 2 with a single packet whose destination is
\* the node diagonal to its source
DiagonalOnSquare ==
    /\ topology \in {"Mesh", "Hypercube"}
    /\ nodes = 2
    /\ Len(packet_list) = 1
    /\ packet_list[1].dst # packet_list[1].src
    /\ packet_list[1].dst \notin Range(Neighbors(G_now, packet_list[1].src))

(* C13 as stated: on the square with one packet going to the diagonal node,  *)
(* after exactly 2 iterations the path has length 3, the packet is on its    *)
(* destination and completed, and it went through the first neighbour of     *)
(* its source.                                                               *)
C13_DiagonalCompletedAfterTwoSteps ==
    (DiagonalOnSquare /\ step = 2) =>
        LET p == packet_list[1]
        IN  /\ Len(p.path) = 3
            /\ p.current = p.dst
            /\ p.completed
            /\ p.path[2] = Neighbors(G_now, p.src)[1]

(* C13 amended: after exactly 2 iterations the path has length 3, the packet *)
(* is on its destination and it went through the first neighbour of its      *)
(* source, but completed is still false; the third iteration sets it, the    *)
(* path keeps length 3, and the summary reports Completed.                   *)
C13_DiagonalArrivesAfterTwoSteps ==
    DiagonalOnSquare =>
        LET p == packet_list[1]
        IN  /\ step = 2 => /\ Len(p.path) = 3
                           /\ p.current = p.dst
                           /\ ~p.completed
                           /\ p.path[2] = Neighbors(G_now, p.src)[1]
            /\ step < 2 => p.current # p.dst
            /\ step >= 3 => /\ p.completed
                            /\ p.path = <<p.src, Neighbors(G_now, p.src)[1], p.dst>>
            /\ pc = "done" => status = <<"Completed">>

\* the diagonal packet right after the third iteration has marked it
C13_Witness ==
    /\ DiagonalOnSquare
    /\ step = 3
    /\ packet_list[1].completed
    /\ Len(packet_list[1].path) = 3

(* C14: a packet that has a neighbour outside its path is moved to the node  *)
(* the router chose, away from its node and without a blocked step, however  *)
(* many other packets stand on that node: occupancy never refuses a move.    *)
C14_OccupancyNeverRefusesMove ==
    \A k \in 1..Len(router_calls) :
        LET c == router_calls[k]
            p == packet_list[c.packet]
        IN  CallCandidates(c) # {} =>
                /\ c.next_hop # CallPacket(c).current
                /\ p.current = c.next_hop
                /\ p.path = Append(CallPacket(c).path, c.next_hop)
                /\ p.blocked_steps = CallPacket(c).blocked_steps

\* two not-yet-completed packets stand on the same node after both were moved
\* by the latest iteration, the later one onto the node the other occupied
C14_Witness ==
    \E k1, k2 \in 1..Len(router_calls) :
        LET c1 == router_calls[k1]
            c2 == router_calls[k2]
        IN  /\ k1 < k2
            /\ c1.packet # c2.packet
            /\ c1.next_hop # CallPacket(c1).current
            /\ c2.next_hop # CallPacket(c2).current
            /\ OthersOn(c2, c2.next_hop) >= 1
            /\ packet_list[c1.packet].current = packet_list[c2.packet].current
            /\ ~packet_list[c1.packet].completed
            /\ ~packet_list[c2.packet].completed

\* the not-yet-completed packets standing on the node at the top of an iteration
LiveOn(node) ==
    {i \in Packets : packet_list[i].current = node /\ ~packet_list[i].completed}

(* C15: in the snapshot an iteration draws, a node is Empty (lightblue) iff  *)
(* no not-yet-completed packet stands on it, Congested/Blocked (orange) iff  *)
(* one of the not-yet-completed packets on it has blocked_steps >= 3, and    *)
(* Active (red) iff some not-yet-completed packet stands on it and none of   *)
(* them has blocked_steps >= 3; completed packets play no part.              *)
C15_SnapshotClassification ==
    [][IsStep =>
          /\ Len(node_colors') = Len(NodeList(G_now))
          /\ \A k \in 1..Len(NodeList(G_now)) :
                 LET here == LiveOn(NodeList(G_now)[k])
                     deadlocked == \E i \in here : packet_list[i].blocked_steps >= 3
                 IN  /\ node_colors'[k] \in {"lightblue", "orange", "red"}
                     /\ node_colors'[k] = "lightblue" <=> here = {}
                     /\ node_colors'[k] = "orange" <=> deadlocked
                     /\ node_colors'[k] = "red" <=> (here # {} /\ ~deadlocked)]_vars

\* the latest snapshot shows as Empty the node of a packet that was completed
\* before it was drawn, and as Congested/Blocked the node of a packet that had
\* blocked_steps >= 3 by then
C15_Witness ==
    \E i, j \in Packets, a, b \in 1..Len(node_colors) :
        /\ packet_list[i].completed
        /\ Len(packet_list[i].path) < step
        /\ NodeList(G_now)[a] = packet_list[i].current
        /\ node_colors[a] = "lightblue"
        /\ ~packet_list[j].completed
        /\ packet_list[j].blocked_steps >= 4
        /\ NodeList(G_now)[b] = packet_list[j].current
        /\ node_colors[b] = "orange"
        /\ \E r \in 1..Len(node_colors) : r \notin {a, b} /\ node_colors[r] = "lightblue"

(* C16: an iteration that finds a not-yet-completed packet on its            *)
(* destination sets its completed flag without calling the router and        *)
(* leaves its current node, path and blocked_steps alone; the flag is set    *)
(* by no other iteration, so it is set by the iteration that follows the     *)
(* one in which the packet arrived.                                          *)
C16_CompletedOneStepAfterArrival ==
    [][IsStep =>
          \A i \in Packets :
              LET p == packet_list[i]
                  q == packet_list'[i]
              IN  /\ (~p.completed /\ p.current = p.dst) =>
                         /\ q.completed
                         /\ ~RoutedNext(i)
                         /\ q.current = p.current
                         /\ q.path = p.path
                         /\ q.blocked_steps = p.blocked_steps
                  /\ (~p.completed /\ q.completed) =>
                         /\ p.current = p.dst
                         /\ Len(p.path) = step + 1
                         /\ p.path[Len(p.path) - 1] # p.dst
                  /\ (~p.completed /\ p.current # p.dst) => ~q.completed]_vars

\* a packet whose flag was set by the latest iteration, one iteration after
\* the hop that brought it to its destination, while another packet was routed
C16_Witness ==
    \E i \in Packets :
        LET p == packet_list[i]
        IN  /\ p.completed
            /\ Len(p.path) = step
            /\ step >= 3
            /\ p.current = p.dst
            /\ \A k \in 1..Len(router_calls) : router_calls[k].packet # i
            /\ router_calls # << >>

(* C17: when the loop has run its 2*n*n iterations every packet is either   *)
(* completed or has blocked_steps >= 1 and stands on a node other than its   *)
(* destination with no neighbour outside its path, so every packet the       *)
(* summary reports as Blocked has hit a dead end and none stands on its      *)
(* destination unmarked. For every kind and every n in 2..5 the graph has    *)
(* fewer nodes than the loop has iterations, so a path without repeated      *)
(* nodes ends, and its packet is marked, before the loop does.               *)
C17_BlockedAtEndHitDeadEnd ==
    /\ ~LoopContinues(nodes, step, packet_list) =>
           /\ \A i \in Packets :
                  LET p == packet_list[i]
                  IN  \/ p.completed
                      \/ /\ p.blocked_steps >= 1
                         /\ p.current # p.dst
                         /\ Unvisited(G_now, p) = << >>
           /\ \A kind \in Topologies, n \in MinSize..MaxNodes :
                  Len(NodeList(generate_topology(kind, n))) < 2 * n * n
    /\ pc = "done" =>
           \A i \in Packets :
               LET p == packet_list[i]
               IN  /\ status[i] = "Completed" <=> p.completed
                   /\ status[i] = "Blocked" <=>
                          (~p.completed /\ p.blocked_steps >= 1 /\ p.current # p.dst)

\* a finished run whose summary reports one packet Completed and one Blocked
C17_Witness ==
    /\ pc = "done"
    /\ step = 2 * nodes * nodes
    /\ \E i, j \in Packets :
           /\ status[i] = "Completed"
           /\ status[j] = "Blocked"
           /\ packet_list[j].blocked_steps >= 1
           /\ packet_list[j].current # packet_list[j].dst

(* C18: every packet's path starts at its source and consists of pairwise   *)
(* distinct nodes, each adjacent to the one before it, followed by           *)
(* blocked_steps further copies of the last of them; the last entry is the   *)
(* packet's current node. A node is therefore repeated in the trailing run   *)
(* only.                                                                     *)
C18_SimplePathThenRepeats ==
    \A i \in Packets :
        LET p == packet_list[i]
            m == Len(p.path) - p.blocked_steps
        IN  /\ m >= 1
            /\ p.path[1] = p.src
            /\ p.path[Len(p.path)] = p.current
            /\ Cardinality({p.path[a] : a \in 1..m}) = m
            /\ \A a \in 1..(m - 1) :
                   p.path[a + 1] \in Range(Neighbors(G_now, p.path[a]))
            /\ \A a \in (m + 1)..Len(p.path) : p.path[a] = p.path[m]

\* a packet that walked over at least two edges and then was blocked at least
\* twice, next to a packet that has not been blocked
C18_Witness ==
    \E i, j \in Packets :
        /\ packet_list[i].blocked_steps >= 2
        /\ Len(packet_list[i].path) - packet_list[i].blocked_steps >= 3
        /\ packet_list[j].blocked_steps = 0
        /\ Len(packet_list[j].path) >= 3

\* the packet list seen by router call c with the routed packet's destination
\* replaced by d
WithDst(c, d) == [c.view EXCEPT ![c.packet].dst = d]

(* C19: routing does not look at the destination. For every router call an  *)
(* iteration makes and every other destination the routed packet could have  *)
(* had without standing on it, the loop body run on the packet list that     *)
(* differs in that destination only makes the same router call with the same *)
(* answer and leaves the packet as the iteration left it, with the same      *)
(* current node, path, completed flag and blocked_steps, and the other       *)
(* packets untouched.                                                        *)
C19_RoutingIgnoresDestination ==
    [][IsStep =>
          \A k \in 1..Len(router_calls') :
              LET c == router_calls'[k]
                  i == c.packet
              IN  \A d \in Range(NodeList(G_now)) \ {CallPacket(c).current} :
                      MovePacket(G_now, [pl |-> WithDst(c, d), calls |-> << >>], i)
                          = [pl |-> [c.view EXCEPT
                                         ![i] = [packet_list'[i] EXCEPT !.dst = d]],
                             calls |-> <<[packet |-> i, view |-> WithDst(c, d),
                                          next_hop |-> c.next_hop]>>]]_vars

\* a router call for a packet whose destination was a neighbour outside its
\* path, answered with another neighbour; the packet walked past its destination
C19_Witness ==
    \E k \in 1..Len(router_calls) :
        LET c == router_calls[k]
            p == CallPacket(c)
        IN  /\ p.dst \in Range(Unvisited(G_now, p))
            /\ c.next_hop # p.dst
            /\ packet_list[c.packet].current = c.next_hop
            /\ ~packet_list[c.packet].completed

=============================================================================
